---- MODULE Spec2Model ----
(***************************************************************************)
(* Model of gachapon_sim.py.  Spec is one call of run_single_simulation,   *)
(* one step per loop iteration, followed by SimulationAggregator.add_result*)
(* on its result.  MainSpec is main: a loop of NUM_SIMULATIONS calls, each *)
(* call one step that returns any result the function can return, then    *)
(* calculate_final_report and print_advanced_report.                       *)
(*                                                                         *)
(* The machine of the source holds 5 item types with 10 capsules each and  *)
(* main runs 100000 lifetimes.  The model keeps the source's structure and *)
(* formulas and scales the three numbers down to its bounds: the machine   *)
(* holds the last MaxItemTypes items of the source's list (so that         *)
(* "Rare Gold Cat", with its own patience distribution, is always there),  *)
(* MaxCapsulesPerItem capsules of each, and NUM_SIMULATIONS is at most     *)
(* MaxRuns.  Quotients are kept exact, as their two terms, where the       *)
(* source computes a float.                                                *)
(***************************************************************************)
EXTENDS Integers, Sequences, FiniteSets, TLC

\* ---------------------------------------------------------------- bounds
\* The number of item types of the machine (5 in the source).
MaxItemTypes == 2

\* The capsules per item type (10 in the source).
MaxCapsulesPerItem == 2

\* The largest NUM_SIMULATIONS that MainSpec tries.
MaxRuns == 2

\* ------------------------------------------------------- configuration
\* The list of line 12.
ItemList ==
    <<"Cat Keychain", "Dog Keychain", "Rabbit Figurine", "Hamster Sticker", "Rare Gold Cat">>

\* The items of the machine: the last MaxItemTypes entries of the list.
ITEMS == {ItemList[k] : k \in {j \in 1..Len(ItemList) : j > Len(ItemList) - MaxItemTypes}}

\* 10 in the source; scaled down to the bound.
CAPSULES_PER_ITEM == MaxCapsulesPerItem

NUM_ITEM_TYPES == Cardinality(ITEMS)

TOTAL_CAPSULES == NUM_ITEM_TYPES * CAPSULES_PER_ITEM

\* ITEM_POPULARITY gives every item a positive weight, so random.choices can
\* return any of them.
ITEM_POPULARITY == ITEMS

\* MAX_PULLS_PER_ITEM: the keys random.choices can return, i.e. those of
\* positive weight ("Default" gives 20 the weight 0.00).
MAX_PULLS_PER_ITEM ==
    [d \in {"Rare Gold Cat", "Default"} |->
        IF d = "Rare Gold Cat" THEN {1, 2, 3, 5, 10, 20} ELSE {1, 2, 3, 5, 10}]

\* MAX_PULLS_PER_ITEM.get(desired_item, MAX_PULLS_PER_ITEM["Default"])
pull_distribution(desired) ==
    IF desired \in DOMAIN MAX_PULLS_PER_ITEM
    THEN MAX_PULLS_PER_ITEM[desired]
    ELSE MAX_PULLS_PER_ITEM["Default"]

\* ------------------------------------------------------------- helpers
RECURSIVE SumOver(_, _)
SumOver(f, S) ==
    IF S = {} THEN 0
    ELSE LET x == CHOOSE y \in S : TRUE IN f[x] + SumOver(f, S \ {x})

\* sum(state.values())
Total(state) == SumOver(state, DOMAIN state)

\* ---------------------------------------------------------------- state
VARIABLES
    pc,                    \* position in run_single_simulation / main
    gachapon_contents,     \* item -> remaining count
    state_history,         \* copies of gachapon_contents
    customer_outcomes,     \* one record per session
    depleted_pull_number,  \* item -> global pull index of its depletion
    total_pull_counter,
    desired_item, max_pulls, pulls_this_turn, got_item,   \* session locals
    pulled_items,          \* the results of random.choice(capsule_pool), in order
    num_runs,              \* aggregator
    agg_snapshots,
    snapshot_rate_distributions,
    agg_success_by_item,
    agg_success_by_pull_count,
    agg_depletion_pulls,
    agg_depletion_counts,
    agg_pulls_successful,
    agg_pulls_failed,
    total_successful_customers,
    total_failed_customers,
    agg_lifecycle_rates,   \* item -> total remaining -> sum of the item's counts
    total_lifecycle_steps,
    num_simulations,       \* NUM_SIMULATIONS of this execution of main
    single_run_result,     \* main's local of line 383
    results,               \* the results passed to add_result so far
    final_report,          \* final_results of main
    significance           \* what _print_significance_analysis concluded

simVars == <<gachapon_contents, state_history, customer_outcomes,
             depleted_pull_number, total_pull_counter, pulled_items>>
sessVars == <<desired_item, max_pulls, pulls_this_turn, got_item>>
aggVars == <<num_runs, agg_snapshots, snapshot_rate_distributions,
             agg_success_by_item, agg_success_by_pull_count,
             agg_depletion_pulls, agg_depletion_counts,
             agg_pulls_successful, agg_pulls_failed,
             total_successful_customers, total_failed_customers,
             agg_lifecycle_rates, total_lifecycle_steps>>
mainVars == <<num_simulations, single_run_result, final_report, significance>>
vars == <<pc, simVars, sessVars, aggVars, mainVars, results>>

\* ----------------------------------------------------------- aggregator
LevelNames == <<"100%", "75%", "50%", "25%", "0%">>

\* int(TOTAL_CAPSULES * 0.75) etc.: the products are exact in binary floating
\* point, and int() truncates.
snapshot_levels ==
    [l \in {LevelNames[k] : k \in 1..Len(LevelNames)} |->
        CASE l = "100%" -> TOTAL_CAPSULES
          [] l = "75%"  -> (TOTAL_CAPSULES * 3) \div 4
          [] l = "50%"  -> TOTAL_CAPSULES \div 2
          [] l = "25%"  -> TOTAL_CAPSULES \div 4
          [] l = "0%"   -> 0]

Levels == DOMAIN snapshot_levels

\* Variant of Rate: the count is divided by the capacity of the machine.
RateOfCapacity(state, item, remaining_capsules) ==
    [num |-> state[item], den |-> TOTAL_CAPSULES]

\* state.get(item, 0) / remaining_capsules, kept as the fraction's two terms;
\* the constant 0 appended for an empty state is the fraction 0/1.
Rate(state, item, remaining_capsules) ==
    IF remaining_capsules > 0
    THEN [num |-> state[item], den |-> remaining_capsules]
    ELSE [num |-> 0, den |-> 1]

\* Variant of LevelMatches: a strict comparison.
LevelMatchesStrict(remaining_capsules, level_value) == remaining_capsules > level_value

\* The test of line 156.
LevelMatches(remaining_capsules, level_value) == remaining_capsules >= level_value

\* Variant of LevelTaken: the processed set is not consulted.
LevelTakenEveryTime(level_name, remaining_capsules, processed_snapshots) ==
    LevelMatches(remaining_capsules, snapshot_levels[level_name])

\* The guard of line 156 with the processed set.
LevelTaken(level_name, remaining_capsules, processed_snapshots) ==
    /\ LevelMatches(remaining_capsules, snapshot_levels[level_name])
    /\ level_name \notin processed_snapshots

\* The inner loop over the levels for one state: returns the aggregator
\* fields and the processed set after the levels k..5 have been looked at.
RECURSIVE ScanLevels(_, _, _)
ScanLevels(state, k, acc) ==
    IF k > Len(LevelNames) THEN acc
    ELSE LET level_name == LevelNames[k]
             remaining_capsules == Total(state)
         IN IF LevelTaken(level_name, remaining_capsules, acc.processed)
            THEN ScanLevels(state, k + 1,
                   [snap |-> [acc.snap EXCEPT ![level_name] =
                                 [item \in ITEMS |-> @[item] + state[item]]],
                    rates |-> [acc.rates EXCEPT ![level_name] =
                                 [item \in ITEMS |->
                                     Append(@[item], Rate(state, item, remaining_capsules))]],
                    processed |-> acc.processed \cup {level_name}])
            ELSE ScanLevels(state, k + 1, acc)

\* Variant of ScanHistory: the history is walked from its first entry on.
RECURSIVE ScanHistoryForward(_, _, _)
ScanHistoryForward(history, n, acc) ==
    IF n = 0 THEN acc
    ELSE ScanLevels(history[n], 1, ScanHistoryForward(history, n - 1, acc))

\* The outer loop: for state in reversed(state_history); n is the (1-based)
\* index of the state looked at, running from Len(history) down to 1.
RECURSIVE ScanHistory(_, _, _)
ScanHistory(history, n, acc) ==
    IF n = 0 THEN acc
    ELSE ScanHistory(history, n - 1, ScanLevels(history[n], 1, acc))

\* SimulationAggregator._aggregate_snapshots
aggregate_snapshots(history, snap, rates) ==
    ScanHistory(history, Len(history),
                [snap |-> snap, rates |-> rates, processed |-> {}])

\* Variant of max_pull_limit: the smallest key instead of the largest.
max_pull_limit_smallest ==
    LET keys == UNION {MAX_PULLS_PER_ITEM[d] : d \in DOMAIN MAX_PULLS_PER_ITEM}
    IN CHOOSE k \in keys : \A j \in keys : j >= k

\* main, lines 366-372: the largest key of all patience distributions.
max_pull_limit ==
    LET keys == UNION {MAX_PULLS_PER_ITEM[d] : d \in DOMAIN MAX_PULLS_PER_ITEM}
    IN CHOOSE k \in keys : \A j \in keys : j <= k

\* SimulationAggregator.__init__: the fields of a new aggregator.
EmptyAggregator ==
    [num_runs |-> 0,
     agg_snapshots |-> [l \in Levels |-> [item \in ITEMS |-> 0]],
     snapshot_rate_distributions |-> [l \in Levels |-> [item \in ITEMS |-> <<>>]],
     agg_success_by_item |-> [item \in ITEMS |-> [success |-> 0, failure |-> 0]],
     agg_success_by_pull_count |-> [item \in ITEMS |-> [i \in 1..max_pull_limit |-> 0]],
     agg_depletion_pulls |-> [item \in ITEMS |-> 0],
     agg_depletion_counts |-> [item \in ITEMS |-> 0],
     agg_pulls_successful |-> 0,
     agg_pulls_failed |-> 0,
     total_successful_customers |-> 0,
     total_failed_customers |-> 0,
     agg_lifecycle_rates |-> [item \in ITEMS |-> [d \in 1..TOTAL_CAPSULES |-> 0]],
     total_lifecycle_steps |-> 0]

\* Lines 171-181: one outcome folded into the aggregator fields.
fold_outcome(agg, outcome) ==
    LET desired == outcome.desired_item
        pulls == outcome.pulls_taken
    IN IF outcome.got_item
       THEN [agg EXCEPT
               !.agg_success_by_item[desired].success = @ + 1,
               !.agg_pulls_successful = @ + pulls,
               !.total_successful_customers = @ + 1,
               !.agg_success_by_pull_count[desired] =
                   IF pulls \in DOMAIN @ THEN [@ EXCEPT ![pulls] = @ + 1] ELSE @]
       ELSE [agg EXCEPT
               !.agg_success_by_item[desired].failure = @ + 1,
               !.agg_pulls_failed = @ + pulls,
               !.total_failed_customers = @ + 1]

\* SimulationAggregator._aggregate_customer_outcomes: the loop of line 170,
\* from the k-th outcome on.
RECURSIVE aggregate_customer_outcomes(_, _, _)
aggregate_customer_outcomes(agg, outcomes, k) ==
    IF k > Len(outcomes) THEN agg
    ELSE aggregate_customer_outcomes(fold_outcome(agg, outcomes[k]), outcomes, k + 1)

\* Variant of aggregate_depletion_points: the sums are assigned, not added to.
aggregate_depletion_points_assign(agg, depletion_points) ==
    [agg EXCEPT
        !.agg_depletion_pulls =
            [item \in ITEMS |->
                IF item \in DOMAIN depletion_points
                THEN depletion_points[item] ELSE @[item]],
        !.agg_depletion_counts =
            [item \in ITEMS |->
                IF item \in DOMAIN depletion_points THEN 1 ELSE @[item]]]

\* SimulationAggregator._aggregate_depletion_points
aggregate_depletion_points(agg, depletion_points) ==
    [agg EXCEPT
        !.agg_depletion_pulls =
            [item \in ITEMS |->
                IF item \in DOMAIN depletion_points
                THEN @[item] + depletion_points[item] ELSE @[item]],
        !.agg_depletion_counts =
            [item \in ITEMS |->
                IF item \in DOMAIN depletion_points THEN @[item] + 1 ELSE @[item]]]

\* Lines 190-196: one state folded into the lifecycle sums.  The sum of the
\* rates count / total_remaining of an item is kept exact: for each total
\* remaining d, the sum of the counts that were divided by d.
fold_lifecycle_state(agg, state) ==
    LET total_remaining == Total(state)
    IN IF total_remaining > 0
       THEN [agg EXCEPT
               !.total_lifecycle_steps = @ + 1,
               !.agg_lifecycle_rates =
                   [item \in ITEMS |->
                       [@[item] EXCEPT ![total_remaining] = @ + state[item]]]]
       ELSE agg

\* SimulationAggregator._aggregate_lifecycle_rates: the loop of line 190, from
\* the k-th state on.
RECURSIVE aggregate_lifecycle_rates(_, _, _)
aggregate_lifecycle_rates(agg, history, k) ==
    IF k > Len(history) THEN agg
    ELSE aggregate_lifecycle_rates(fold_lifecycle_state(agg, history[k]), history, k + 1)

\* SimulationAggregator.add_result as a function of the aggregator's fields
\* and the result.
add_result_to(agg, result) ==
    LET counted == [agg EXCEPT !.num_runs = @ + 1]
        s == aggregate_snapshots(result.state_history, counted.agg_snapshots,
                                 counted.snapshot_rate_distributions)
        snapped == [counted EXCEPT !.agg_snapshots = s.snap,
                                   !.snapshot_rate_distributions = s.rates]
        tallied == aggregate_customer_outcomes(snapped, result.customer_outcomes, 1)
        depleted == aggregate_depletion_points(tallied, result.depletion_points)
    IN aggregate_lifecycle_rates(depleted, result.state_history, 1)

\* ------------------------------------------------- run_single_simulation
\* Variant of PullsAtSessionStart: the counter is not reset per session.
PullsAtSessionStartStale(previous) == previous

\* Line 82: pulls_this_turn at the start of a session.
PullsAtSessionStart(previous) == 0

\* Variant of WhileContinues: the loop stops one capsule early.
WhileContinuesOffByOne(contents) == Total(contents) > 1

\* Line 72: the while condition.
WhileContinues(contents) == Total(contents) > 0

\* Variant of ForContinues: one iteration too few.
ForContinuesOneLess(pulls, maxp) == pulls + 1 < maxp

\* Variant of ForContinues: one iteration too many.
ForContinuesOneMore(pulls, maxp) == pulls <= maxp

\* Line 85: range(max_pulls) still has an element after `pulls` iterations.
ForContinues(pulls, maxp) == pulls < maxp

\* Variant of BreaksOnEmpty: the test of lines 86-87 is missing.
BreaksOnEmptyNever(contents) == FALSE

\* Lines 86-87: the for loop is left when the machine is empty.
BreaksOnEmpty(contents) == Total(contents) = 0

\* Variant of capsule_pool: every item is in the pool, whatever its count.
capsule_pool_all(contents) == DOMAIN contents

\* capsule_pool of line 92, as the set of items that occur in it.
capsule_pool(contents) == {item \in DOMAIN contents : contents[item] > 0}

\* Variant of RecordsDepletion: the membership test is inverted.
RecordsDepletionInverted(contents, pulled_item, depleted) ==
    contents[pulled_item] = 0 /\ pulled_item \in DOMAIN depleted

\* Variant of RecordsDepletion: written when the count reaches 1 or 0.
RecordsDepletionEarly(contents, pulled_item, depleted) ==
    contents[pulled_item] <= 1 /\ pulled_item \notin DOMAIN depleted

\* Line 96: the condition under which a depletion point is written.
RecordsDepletion(contents, pulled_item, depleted) ==
    contents[pulled_item] = 0 /\ pulled_item \notin DOMAIN depleted

\* Variant of AfterDraw: the break of line 101 is missing.
AfterDrawNoBreak(pulled_item, desired) == "for"

\* Lines 99-101: where control goes after a draw.
AfterDraw(pulled_item, desired) ==
    IF pulled_item = desired THEN "append" ELSE "for"

\* ------------------------------------------------------------------ Init
\* An empty dict.
EmptyReport == [k \in {} |-> 0]

\* main's single_run_result before the first call returns.
NoResult == [state_history |-> <<>>, customer_outcomes |-> <<>>, depletion_points |-> <<>>]

\* Lines 66-70: the locals of a lifetime that begins.
FreshLifetime ==
    /\ gachapon_contents = [item \in ITEMS |-> CAPSULES_PER_ITEM]
    /\ state_history = <<[item \in ITEMS |-> CAPSULES_PER_ITEM]>>
    /\ customer_outcomes = <<>>
    /\ depleted_pull_number = [item \in {} |-> 0]
    /\ total_pull_counter = 0
    /\ pulled_items = <<>>

\* Line 376: a new aggregator.
FreshAggregator ==
    /\ num_runs = EmptyAggregator.num_runs
    /\ agg_snapshots = EmptyAggregator.agg_snapshots
    /\ snapshot_rate_distributions = EmptyAggregator.snapshot_rate_distributions
    /\ agg_success_by_item = EmptyAggregator.agg_success_by_item
    /\ agg_success_by_pull_count = EmptyAggregator.agg_success_by_pull_count
    /\ agg_depletion_pulls = EmptyAggregator.agg_depletion_pulls
    /\ agg_depletion_counts = EmptyAggregator.agg_depletion_counts
    /\ agg_pulls_successful = EmptyAggregator.agg_pulls_successful
    /\ agg_pulls_failed = EmptyAggregator.agg_pulls_failed
    /\ total_successful_customers = EmptyAggregator.total_successful_customers
    /\ total_failed_customers = EmptyAggregator.total_failed_customers
    /\ agg_lifecycle_rates = EmptyAggregator.agg_lifecycle_rates
    /\ total_lifecycle_steps = EmptyAggregator.total_lifecycle_steps

\* One lifetime with a new aggregator: the first iteration of main's loop, at
\* the first line of run_single_simulation's while loop.
Init ==
    /\ pc = "while"
    /\ FreshLifetime
    /\ desired_item = ""
    /\ max_pulls = 0
    /\ pulls_this_turn = 0
    /\ got_item = FALSE
    /\ FreshAggregator
    /\ num_simulations = 1
    /\ single_run_result = NoResult
    /\ results = <<>>
    /\ final_report = EmptyReport
    /\ significance = ""

\* --------------------------------------------------------------- actions
\* Lines 72-83: the while test succeeds, a customer arrives.
StartSession ==
    /\ pc = "while"
    /\ WhileContinues(gachapon_contents)
    /\ \E d \in ITEM_POPULARITY :
         \E m \in pull_distribution(d) :
            /\ desired_item' = d
            /\ max_pulls' = m
    /\ pulls_this_turn' = PullsAtSessionStart(pulls_this_turn)
    /\ got_item' = FALSE
    /\ pc' = "for"
    /\ UNCHANGED <<simVars, aggVars, mainVars, results>>

\* Lines 85-101: one iteration of the for loop that does not break at line 87.
\* random.choice raises IndexError on an empty capsule_pool, after the two
\* counters were incremented.
Draw ==
    /\ pc = "for"
    /\ ForContinues(pulls_this_turn, max_pulls)
    /\ ~BreaksOnEmpty(gachapon_contents)
    /\ pulls_this_turn' = pulls_this_turn + 1
    /\ total_pull_counter' = total_pull_counter + 1
    /\ IF capsule_pool(gachapon_contents) = {}
       THEN /\ pc' = "IndexError"
            /\ UNCHANGED <<pulled_items, gachapon_contents, depleted_pull_number, got_item>>
       ELSE \E pulled_item \in capsule_pool(gachapon_contents) :
              LET contents == [gachapon_contents EXCEPT ![pulled_item] = @ - 1]
                  counter == total_pull_counter + 1
              IN /\ pulled_items' = Append(pulled_items, pulled_item)
                 /\ gachapon_contents' = contents
                 /\ depleted_pull_number' =
                      IF RecordsDepletion(contents, pulled_item, depleted_pull_number)
                      THEN [item \in DOMAIN depleted_pull_number \cup {pulled_item} |->
                               IF item = pulled_item THEN counter
                               ELSE depleted_pull_number[item]]
                      ELSE depleted_pull_number
                 /\ got_item' = IF pulled_item = desired_item THEN TRUE ELSE got_item
                 /\ pc' = AfterDraw(pulled_item, desired_item)
    /\ UNCHANGED <<state_history, customer_outcomes, desired_item, max_pulls, aggVars, mainVars, results>>

\* The for loop is left: by the break of line 101 (pc = "append"), by the
\* break of line 87, or because range(max_pulls) is used up.
SessionOver ==
    \/ pc = "append"
    \/ /\ pc = "for"
       /\ \/ ~ForContinues(pulls_this_turn, max_pulls)
          \/ BreaksOnEmpty(gachapon_contents)

\* Lines 103-104.
EndSession ==
    /\ SessionOver
    /\ customer_outcomes' = Append(customer_outcomes,
          [desired_item |-> desired_item, got_item |-> got_item,
           pulls_taken |-> pulls_this_turn])
    /\ state_history' = Append(state_history, gachapon_contents)
    /\ pc' = "while"
    /\ UNCHANGED <<gachapon_contents, depleted_pull_number, total_pull_counter,
                   pulled_items, sessVars, aggVars, mainVars, results>>

\* The dict returned at lines 106-107.
Result ==
    [state_history |-> state_history,
     customer_outcomes |-> customer_outcomes,
     depletion_points |-> depleted_pull_number]

\* Lines 72, 106-107 and 383: the while test fails and the result is returned
\* to main.
Return ==
    /\ pc = "while"
    /\ ~WhileContinues(gachapon_contents)
    /\ single_run_result' = Result
    /\ pc' = "returned"
    /\ UNCHANGED <<simVars, sessVars, aggVars, results,
                   num_simulations, final_report, significance>>

\* The aggregator's fields, as one record.
Aggregator ==
    [num_runs |-> num_runs,
     agg_snapshots |-> agg_snapshots,
     snapshot_rate_distributions |-> snapshot_rate_distributions,
     agg_success_by_item |-> agg_success_by_item,
     agg_success_by_pull_count |-> agg_success_by_pull_count,
     agg_depletion_pulls |-> agg_depletion_pulls,
     agg_depletion_counts |-> agg_depletion_counts,
     agg_pulls_successful |-> agg_pulls_successful,
     agg_pulls_failed |-> agg_pulls_failed,
     total_successful_customers |-> total_successful_customers,
     total_failed_customers |-> total_failed_customers,
     agg_lifecycle_rates |-> agg_lifecycle_rates,
     total_lifecycle_steps |-> total_lifecycle_steps]

\* SimulationAggregator.add_result on the returned result (lines 142-148,
\* called at line 384).
add_result ==
    /\ pc = "returned"
    /\ \E a \in {add_result_to(Aggregator, single_run_result)} :
          /\ num_runs' = a.num_runs
          /\ agg_snapshots' = a.agg_snapshots
          /\ snapshot_rate_distributions' = a.snapshot_rate_distributions
          /\ agg_success_by_item' = a.agg_success_by_item
          /\ agg_success_by_pull_count' = a.agg_success_by_pull_count
          /\ agg_depletion_pulls' = a.agg_depletion_pulls
          /\ agg_depletion_counts' = a.agg_depletion_counts
          /\ agg_pulls_successful' = a.agg_pulls_successful
          /\ agg_pulls_failed' = a.agg_pulls_failed
          /\ total_successful_customers' = a.total_successful_customers
          /\ total_failed_customers' = a.total_failed_customers
          /\ agg_lifecycle_rates' = a.agg_lifecycle_rates
          /\ total_lifecycle_steps' = a.total_lifecycle_steps
    /\ results' = Append(results, single_run_result)
    /\ pc' = "aggregated"
    /\ UNCHANGED <<simVars, sessVars, mainVars>>

\* The steps of run_single_simulation.
LifetimeStep == StartSession \/ Draw \/ EndSession \/ Return

Next == LifetimeStep \/ add_result

Spec == Init /\ [][Next]_vars

\* run_single_simulation is sequential code: while one of its steps is
\* possible, it is taken.
FairSpec == Spec /\ WF_vars(LifetimeStep)

\* ------------------------------------------------------------------ main
\* A quotient n / d, kept as its two terms.
Frac(n, d) == [num |-> n, den |-> d]

\* float('inf')
Inf == Frac(1, 0)

\* Variant of ReportIsEmpty: the test of line 200 never succeeds.
ReportIsEmptyNever(runs) == FALSE

\* Line 200.
ReportIsEmpty(runs) == runs = 0

\* Lines 203-231: the report of an aggregator with at least one run.
FinalReport(agg) ==
    [snapshots |->
        [l \in Levels |-> [item \in ITEMS |-> Frac(agg.agg_snapshots[l][item], agg.num_runs)]],
     overall_lifecycle_rates |->
        [item \in ITEMS |->
            IF agg.total_lifecycle_steps > 0
            THEN Frac(agg.agg_lifecycle_rates[item], agg.total_lifecycle_steps)
            ELSE Frac(0, 1)],
     success_rate_by_item |->
        [item \in ITEMS |->
            LET data == agg.agg_success_by_item[item]
            IN IF data.success + data.failure > 0
               THEN Frac(data.success, data.success + data.failure)
               ELSE Frac(0, 1)],
     avg_pulls_to_depletion |->
        [item \in ITEMS |->
            IF agg.agg_depletion_counts[item] > 0
            THEN Frac(agg.agg_depletion_pulls[item], agg.agg_depletion_counts[item])
            ELSE Inf],
     avg_pulls_successful |->
        IF agg.total_successful_customers > 0
        THEN Frac(agg.agg_pulls_successful, agg.total_successful_customers)
        ELSE Frac(0, 1),
     avg_pulls_failed |->
        IF agg.total_failed_customers > 0
        THEN Frac(agg.agg_pulls_failed, agg.total_failed_customers)
        ELSE Frac(0, 1),
     total_successes_per_item |->
        [item \in ITEMS |-> agg.agg_success_by_item[item].success],
     success_by_pull_count |-> agg.agg_success_by_pull_count,
     rate_distributions |-> agg.snapshot_rate_distributions]

\* The (desired_item, max_pulls) pairs random.choices can return at lines
\* 73 and 79-80.
Customers ==
    UNION {{<<d, m>> : m \in pull_distribution(d)} : d \in ITEM_POPULARITY}

\* run_single_simulation as a function of the random outcomes: the results
\* the call can return from the top of its while loop (line 72) with locals
\* L, and from the top of its for loop (line 85) in a session of a customer
\* who desires `desired` with patience `maxp`.  A call that raises returns
\* no result.  SessionEnd is lines 103-104.
SessionEnd(L, desired, got) ==
    [L EXCEPT
        !.customer_outcomes = Append(@,
            [desired_item |-> desired, got_item |-> got,
             pulls_taken |-> L.pulls_this_turn]),
        !.state_history = Append(@, L.gachapon_contents)]

RECURSIVE LifetimesFrom(_), SessionFrom(_, _, _, _)
LifetimesFrom(L) ==
    IF ~WhileContinues(L.gachapon_contents)
    THEN {[state_history |-> L.state_history,
           customer_outcomes |-> L.customer_outcomes,
           depletion_points |-> L.depleted_pull_number]}
    ELSE UNION {SessionFrom([L EXCEPT !.pulls_this_turn = PullsAtSessionStart(@)],
                            c[1], c[2], FALSE) : c \in Customers}

SessionFrom(L, desired, maxp, got) ==
    IF ~ForContinues(L.pulls_this_turn, maxp) \/ BreaksOnEmpty(L.gachapon_contents)
    THEN LifetimesFrom(SessionEnd(L, desired, got))
    ELSE UNION {
        LET contents == [L.gachapon_contents EXCEPT ![pulled_item] = @ - 1]
            counter == L.total_pull_counter + 1
            depleted ==
                IF RecordsDepletion(contents, pulled_item, L.depleted_pull_number)
                THEN [item \in DOMAIN L.depleted_pull_number \cup {pulled_item} |->
                         IF item = pulled_item THEN counter
                         ELSE L.depleted_pull_number[item]]
                ELSE L.depleted_pull_number
            drawn == [L EXCEPT !.gachapon_contents = contents,
                               !.total_pull_counter = counter,
                               !.pulls_this_turn = @ + 1,
                               !.depleted_pull_number = depleted]
            g == IF pulled_item = desired THEN TRUE ELSE got
        IN IF AfterDraw(pulled_item, desired) = "append"
           THEN LifetimesFrom(SessionEnd(drawn, desired, g))
           ELSE SessionFrom(drawn, desired, maxp, g)
        : pulled_item \in capsule_pool(L.gachapon_contents)}

\* The results of a call of run_single_simulation (locals of lines 66-70).
Lifetimes ==
    LifetimesFrom([gachapon_contents |-> [item \in ITEMS |-> CAPSULES_PER_ITEM],
                   state_history |-> <<[item \in ITEMS |-> CAPSULES_PER_ITEM]>>,
                   customer_outcomes |-> <<>>,
                   depleted_pull_number |-> [item \in {} |-> 0],
                   total_pull_counter |-> 0,
                   pulls_this_turn |-> 0])

\* The two descriptions of run_single_simulation agree: what the step-by-step
\* call returns under Spec is one of Lifetimes.
ReturnedIsALifetime == pc = "returned" => single_run_result \in Lifetimes

\* Line 383 in main's loop (lines 378-383): an iteration is left and
\* run_single_simulation returns a result.  The locals of the call are not
\* part of main's state.
run_single_simulation ==
    /\ pc \in {"main", "aggregated"}
    /\ num_runs < num_simulations
    /\ single_run_result' \in Lifetimes
    /\ pc' = "returned"
    /\ UNCHANGED <<simVars, sessVars, aggVars, results,
                   num_simulations, final_report, significance>>

\* Line 387, SimulationAggregator.calculate_final_report, after the loop.  A
\* division by num_runs = 0 raises ZeroDivisionError.
calculate_final_report ==
    /\ pc \in {"main", "aggregated"}
    /\ num_runs >= num_simulations
    /\ IF ReportIsEmpty(num_runs)
       THEN final_report' = EmptyReport /\ pc' = "finalized"
       ELSE IF num_runs = 0
            THEN final_report' = final_report /\ pc' = "ZeroDivisionError"
            ELSE final_report' = FinalReport(Aggregator) /\ pc' = "finalized"
    /\ UNCHANGED <<simVars, sessVars, aggVars, num_simulations, single_run_result, significance, results>>

\* Line 388, print_advanced_report: _print_snapshots reads
\* report_data["snapshots"] (KeyError on an empty dict), and
\* _print_significance_analysis tests the "25%" rates of "Rare Gold Cat" when
\* there are at least 2 of them.
print_advanced_report ==
    /\ pc = "finalized"
    /\ IF "snapshots" \notin DOMAIN final_report
       THEN pc' = "KeyError" /\ significance' = significance
       ELSE LET observed_rates == final_report.rate_distributions["25%"]["Rare Gold Cat"]
            IN /\ significance' = IF Len(observed_rates) < 2
                                  THEN "Not enough data"
                                  ELSE "ttest_1samp"
               /\ pc' = "done"
    /\ UNCHANGED <<simVars, sessVars, aggVars, num_simulations, single_run_result, final_report, results>>

\* main with NUM_SIMULATIONS between 0 and MaxRuns.
MainInit ==
    /\ pc = "main"
    /\ FreshLifetime
    /\ desired_item = ""
    /\ max_pulls = 0
    /\ pulls_this_turn = 0
    /\ got_item = FALSE
    /\ FreshAggregator
    /\ num_simulations \in 0..MaxRuns
    /\ single_run_result = NoResult
    /\ results = <<>>
    /\ final_report = EmptyReport
    /\ significance = ""

MainNext ==
    run_single_simulation \/ add_result \/ calculate_final_report \/ print_advanced_report

MainSpec == MainInit /\ [][MainNext]_vars

\* ======================================================================
\* Properties
\* ======================================================================
FullInventory == [item \in ITEMS |-> CAPSULES_PER_ITEM]

\* The inventory after the first k draws of the lifetime, from the draws alone.
InventoryAfter(k) ==
    [item \in ITEMS |->
        CAPSULES_PER_ITEM - Cardinality({j \in 1..k : pulled_items[j] = item})]

\* The levels below 100%.
LowerLevels == {l \in Levels : snapshot_levels[l] < TOTAL_CAPSULES}

\* The capsule count of the next lower level (for "0%": none, -1).
NextLowerValue(l) ==
    LET below == {snapshot_levels[m] : m \in {x \in Levels : snapshot_levels[x] < snapshot_levels[l]}}
    IN IF below = {} THEN -1
       ELSE CHOOSE v \in below : \A w \in below : w <= v

\* The draws of the session that has just made pulls draws.
SessionDraws(log, pulls) == SubSeq(log, Len(log) - pulls + 1, Len(log))

\* ---------------------------------------------------------------- C1
\* C1: after add_result on one lifetime, the snapshot aggregated for every
\* level below 100% is the inventory right after the first draw that brings
\* the total to the level's capsule count or below, i.e. after
\* TOTAL_CAPSULES - level draws.
C1_SnapshotAtFirstCrossingDraw ==
    pc = "aggregated" =>
        \A l \in LowerLevels :
            agg_snapshots[l] = InventoryAfter(TOTAL_CAPSULES - snapshot_levels[l])

\* ---------------------------------------------------------------- C2
\* C2: after add_result on one lifetime, the snapshot aggregated for a level
\* sums to at most the level's capsule count and to more than the next lower
\* level's count (so to exactly 0 for "0%").
C2_SnapshotConservation ==
    pc = "aggregated" =>
        \A l \in Levels :
            /\ Total(agg_snapshots[l]) <= snapshot_levels[l]
            /\ Total(agg_snapshots[l]) > NextLowerValue(l)

\* ---------------------------------------------------------------- C3
\* C3: add_result on one lifetime captures exactly one snapshot per level (one
\* rate sample per level and item, the snapshot being a state of the history),
\* and a higher level's snapshot is no later a state than a lower level's: its
\* total is not smaller.
C3_OneSnapshotPerLevelInOrder ==
    pc = "aggregated" =>
        /\ \A l \in Levels :
              /\ \A item \in ITEMS : Len(snapshot_rate_distributions[l][item]) = 1
              /\ \E n \in 1..Len(state_history) : agg_snapshots[l] = state_history[n]
        /\ \A l1, l2 \in Levels :
              snapshot_levels[l1] > snapshot_levels[l2] =>
                 \E n1, n2 \in 1..Len(state_history) :
                    /\ n1 <= n2
                    /\ agg_snapshots[l1] = state_history[n1]
                    /\ agg_snapshots[l2] = state_history[n2]
                    /\ Total(agg_snapshots[l1]) >= Total(agg_snapshots[l2])

\* A lifetime has been aggregated in which one session crossed a level in its
\* middle, so that the levels' snapshots are not all different states.
C3_Witness ==
    /\ pc = "aggregated"
    /\ \E l1, l2 \in Levels : l1 # l2 /\ agg_snapshots[l1] = agg_snapshots[l2]
    /\ \E l1, l2 \in Levels : agg_snapshots[l1] # agg_snapshots[l2]
    /\ \A l \in Levels : \A item \in ITEMS : Len(snapshot_rate_distributions[l][item]) = 1

\* ---------------------------------------------------------------- C4
\* C4: the inventory starts full; only a draw changes it, and a draw takes
\* exactly one capsule of one item that had some, leaving the other items as
\* they were; no count is ever negative; the total is 0 once
\* run_single_simulation has returned.
C4_InventoryChangedOnlyByDraw ==
    /\ gachapon_contents = FullInventory
    /\ [][ (gachapon_contents' # gachapon_contents \/ pulled_items' # pulled_items) =>
             \E item \in ITEMS :
                /\ pulled_items' = Append(pulled_items, item)
                /\ gachapon_contents[item] > 0
                /\ gachapon_contents' = [gachapon_contents EXCEPT ![item] = @ - 1] ]_vars
    /\ [](\A item \in ITEMS : gachapon_contents[item] >= 0)
    /\ [](pc = "returned" => Total(gachapon_contents) = 0)

\* The lifetime has returned with an empty machine after one item ran out
\* while the other still had capsules.
C4_Witness ==
    /\ pc = "returned"
    /\ \A item \in ITEMS : gachapon_contents[item] = 0
    /\ \E item \in ITEMS : depleted_pull_number[item] < TOTAL_CAPSULES - 1

\* ---------------------------------------------------------------- C5
\* C5: every lifetime returns, and it has made exactly TOTAL_CAPSULES draws
\* when it does; the draw counter never exceeds TOTAL_CAPSULES.
C5_LifetimeTerminates ==
    /\ <>(pc = "returned" /\ total_pull_counter = TOTAL_CAPSULES
                          /\ Len(pulled_items) = TOTAL_CAPSULES)
    /\ [](total_pull_counter <= TOTAL_CAPSULES)

\* The lifetime has returned after TOTAL_CAPSULES draws made by sessions of
\* different lengths, one of them cut short by the empty machine.
C5_Witness ==
    /\ pc = "returned"
    /\ total_pull_counter = TOTAL_CAPSULES
    /\ customer_outcomes[Len(customer_outcomes)].got_item = FALSE
    /\ customer_outcomes[Len(customer_outcomes)].pulls_taken < max_pulls
    /\ Len(customer_outcomes) > 1

\* ---------------------------------------------------------------- C6
\* C6: when the lifetime has returned, depletion_points has an entry for
\* every item of ITEMS and for nothing else, and no step of the lifetime
\* removes or changes an entry that was written.
C6_DepletionComplete ==
    /\ [](pc = "returned" => DOMAIN depleted_pull_number = ITEMS)
    /\ [](DOMAIN depleted_pull_number \subseteq ITEMS)
    /\ [][ \A item \in DOMAIN depleted_pull_number :
              /\ item \in DOMAIN depleted_pull_number'
              /\ depleted_pull_number'[item] = depleted_pull_number[item] ]_vars

\* The lifetime has returned with the items depleted at different draws.
C6_Witness ==
    /\ pc = "returned"
    /\ DOMAIN depleted_pull_number = ITEMS
    /\ \E i1, i2 \in ITEMS : depleted_pull_number[i1] + 1 < depleted_pull_number[i2]

\* ---------------------------------------------------------------- C7
\* C7: in every state, also in the middle of a session, an item has a
\* depletion point exactly if its count is 0, and the point is the 1-based
\* index, over all draws of the lifetime, of the draw that took its last
\* capsule (count 1 before that draw, 0 after it).
C7_DepletionPointIsDrawIndex ==
    /\ \A item \in ITEMS :
          (gachapon_contents[item] = 0) <=> (item \in DOMAIN depleted_pull_number)
    /\ \A item \in DOMAIN depleted_pull_number :
          LET k == depleted_pull_number[item]
          IN /\ k \in 1..Len(pulled_items)
             /\ pulled_items[k] = item
             /\ InventoryAfter(k - 1)[item] = 1
             /\ InventoryAfter(k)[item] = 0

\* An item has just been depleted by a draw in the middle of a session that
\* is not the first one and that has not obtained its desired item.
C7_Witness ==
    /\ pc = "for"
    /\ pulls_this_turn >= 2
    /\ Len(customer_outcomes) >= 1
    /\ ~got_item
    /\ \E item \in DOMAIN depleted_pull_number :
          /\ depleted_pull_number[item] = total_pull_counter
          /\ item # desired_item

\* ---------------------------------------------------------------- C8
\* C8: a draw is made only while the session has not obtained its item, has
\* made fewer than max_pulls draws and the machine is not empty; a session is
\* recorded only when one of the three has happened; its got_item says whether
\* its last draw was the desired item, and none of its earlier draws was.
C8_SessionStopsAtFirstCondition ==
    /\ [][ pulled_items' # pulled_items =>
              /\ ~got_item
              /\ pulls_this_turn < max_pulls
              /\ Total(gachapon_contents) > 0 ]_vars
    /\ [][ customer_outcomes' # customer_outcomes =>
              LET o == customer_outcomes'[Len(customer_outcomes')]
                  draws == SessionDraws(pulled_items, o.pulls_taken)
              IN /\ customer_outcomes' = Append(customer_outcomes, o)
                 /\ o.desired_item = desired_item
                 /\ o.pulls_taken = pulls_this_turn
                 /\ \/ o.pulls_taken >= 1 /\ draws[o.pulls_taken] = o.desired_item
                    \/ o.pulls_taken = max_pulls
                    \/ Total(gachapon_contents) = 0
                 /\ o.got_item <=>
                       (o.pulls_taken >= 1 /\ draws[o.pulls_taken] = o.desired_item)
                 /\ \A j \in 1..(o.pulls_taken - 1) : draws[j] # o.desired_item ]_vars

\* A session of several draws has ended with the desired item, and an earlier
\* session ended without it.
C8_Witness ==
    /\ pc = "while"
    /\ Len(customer_outcomes) >= 2
    /\ customer_outcomes[Len(customer_outcomes)].got_item
    /\ customer_outcomes[Len(customer_outcomes)].pulls_taken >= 2
    /\ ~customer_outcomes[1].got_item

\* ---------------------------------------------------------------- C9
\* C9: every recorded outcome has at least 1 pull, and the outcome of the
\* session that has just ended has at most the max_pulls chosen for it; so a
\* session of patience 1 is recorded with exactly 1 pull.
C9_PullsTakenWithinPatience ==
    /\ \A k \in 1..Len(customer_outcomes) : customer_outcomes[k].pulls_taken >= 1
    /\ (pc \in {"while", "returned"} /\ Len(customer_outcomes) > 0) =>
          LET o == customer_outcomes[Len(customer_outcomes)]
          IN /\ o.pulls_taken <= max_pulls
             /\ max_pulls = 1 => o.pulls_taken = 1

\* A session has ended that used up a patience of more than one pull, after a
\* session of patience above what the machine held.
C9_Witness ==
    /\ pc = "while"
    /\ Len(customer_outcomes) >= 2
    /\ max_pulls >= 2
    /\ customer_outcomes[Len(customer_outcomes)].pulls_taken = max_pulls
    /\ ~customer_outcomes[Len(customer_outcomes)].got_item

\* ---------------------------------------------------------------- C10
\* C10: after add_result on one lifetime, the "100%" snapshot is the full
\* initial inventory (the first entry of state_history, of before any draw),
\* and its rate samples are those of the full inventory.
C10_FullSnapshotIsInitialState ==
    pc = "aggregated" =>
        /\ agg_snapshots["100%"] = FullInventory
        /\ agg_snapshots["100%"] = state_history[1]
        /\ \A n \in 2..Len(state_history) : agg_snapshots["100%"] # state_history[n]
        /\ \A item \in ITEMS :
              snapshot_rate_distributions["100%"][item] =
                 <<[num |-> CAPSULES_PER_ITEM, den |-> TOTAL_CAPSULES]>>

\* A lifetime of several sessions has been aggregated.
C10_Witness ==
    /\ pc = "aggregated"
    /\ Len(state_history) > 2
    /\ agg_snapshots["100%"] = FullInventory
    /\ num_runs = 1

\* ---------------------------------------------------------------- C11
\* C11: no draw is attempted on an empty machine: whenever the for loop is
\* about to draw, capsule_pool is not empty, and random.choice never raises.
C11_NoDrawFromEmptyPool ==
    /\ pc # "IndexError"
    /\ (pc = "for" /\ ForContinues(pulls_this_turn, max_pulls)
                   /\ ~BreaksOnEmpty(gachapon_contents)) =>
          capsule_pool(gachapon_contents) # {}

\* The machine ran empty in the middle of a session that had pulls left and
\* had not obtained its item: the loop is at the test of line 86.
C11_Witness ==
    /\ pc = "for"
    /\ Total(gachapon_contents) = 0
    /\ pulls_this_turn < max_pulls
    /\ ~got_item

\* ---------------------------------------------------------------- C16
Min(a, b) == IF a <= b THEN a ELSE b

\* C16: a session that starts when its desired item has no capsule left is
\* recorded without the item, after exactly min(max_pulls, total at the
\* session's start) pulls.  The inventory at a session's start is the last
\* entry of state_history while the session runs.
C16_AbsentItemNeverObtained ==
    [][ customer_outcomes' # customer_outcomes =>
          LET start == state_history[Len(state_history)]
              o == customer_outcomes'[Len(customer_outcomes')]
          IN start[o.desired_item] = 0 =>
                /\ ~o.got_item
                /\ o.pulls_taken = Min(max_pulls, Total(start)) ]_vars

\* A lifetime in which one session for an absent item gave up after its single
\* pull while capsules remained, and the last session for an absent item was
\* cut short by the empty machine.
C16_Witness ==
    /\ pc = "returned"
    /\ \E k \in 1..Len(customer_outcomes) :
          /\ state_history[k][customer_outcomes[k].desired_item] = 0
          /\ Total(state_history[k]) >= 2
          /\ customer_outcomes[k].pulls_taken = 1
          /\ ~customer_outcomes[k].got_item
    /\ LET n == Len(customer_outcomes)
       IN /\ state_history[n][customer_outcomes[n].desired_item] = 0
          /\ customer_outcomes[n].pulls_taken = Total(state_history[n])
          /\ customer_outcomes[n].pulls_taken < max_pulls
          /\ ~customer_outcomes[n].got_item

\* ---------------------------------------------------------------- C17
\* The index of the last entry of the history whose total is at least v.
LastAtOrAbove(history, v) ==
    CHOOSE n \in 1..Len(history) :
        /\ Total(history[n]) >= v
        /\ \A m \in (n + 1)..Len(history) : Total(history[m]) < v

\* C17: after add_result on one lifetime, the snapshot of every level is the
\* last entry of state_history, a list with one entry for the start and one
\* per complete session, whose total is at least the level's capsule count.
C17_SnapshotIsLastStateAtOrAbove ==
    pc = "aggregated" =>
        /\ Len(state_history) = Len(customer_outcomes) + 1
        /\ \A l \in Levels :
              agg_snapshots[l] =
                 state_history[LastAtOrAbove(state_history, snapshot_levels[l])]

\* A lifetime has been aggregated in which a snapshot's total is above its
\* level's count and two levels, both crossed by one session, have the same
\* snapshot.
C17_Witness ==
    /\ pc = "aggregated"
    /\ \E l \in Levels : Total(agg_snapshots[l]) > snapshot_levels[l]
    /\ \E l1, l2 \in Levels :
          /\ snapshot_levels[l1] > snapshot_levels[l2]
          /\ agg_snapshots[l1] = agg_snapshots[l2]
          /\ \E k \in 1..Len(customer_outcomes) :
                /\ state_history[k] = agg_snapshots[l1]
                /\ Total(state_history[k + 1]) < snapshot_levels[l2]

\* ---------------------------------------------------------------- C18
RECURSIVE SumPulls(_)
SumPulls(outcomes) ==
    IF outcomes = <<>> THEN 0
    ELSE outcomes[1].pulls_taken + SumPulls(Tail(outcomes))

\* C18: between sessions and at the end of the lifetime, state_history has one
\* entry more than customer_outcomes, each session's pulls_taken is the drop of
\* the total between its two entries, and the pulls_taken add up to the global
\* pull counter; at the end that counter is TOTAL_CAPSULES.
C18_EveryDrawAttributedToOneSession ==
    pc \in {"while", "returned"} =>
        /\ Len(state_history) = Len(customer_outcomes) + 1
        /\ \A k \in 1..Len(customer_outcomes) :
              Total(state_history[k + 1]) =
                 Total(state_history[k]) - customer_outcomes[k].pulls_taken
        /\ SumPulls(customer_outcomes) = total_pull_counter
        /\ total_pull_counter = Len(pulled_items)
        /\ pc = "returned" => SumPulls(customer_outcomes) = TOTAL_CAPSULES

\* The lifetime has returned after sessions of different numbers of pulls.
C18_Witness ==
    /\ pc = "returned"
    /\ SumPulls(customer_outcomes) = TOTAL_CAPSULES
    /\ \E j, k \in 1..Len(customer_outcomes) :
          customer_outcomes[j].pulls_taken > customer_outcomes[k].pulls_taken

\* ---------------------------------------------------------------- C12
\* The aggregator fed with the results rs in order.
RECURSIVE FoldResults(_)
FoldResults(rs) ==
    IF rs = <<>> THEN EmptyAggregator
    ELSE add_result_to(FoldResults(SubSeq(rs, 1, Len(rs) - 1)), rs[Len(rs)])

\* The field-wise sum of two aggregators; the rate lists are concatenated.
SumAggregators(a, b) ==
    [num_runs |-> a.num_runs + b.num_runs,
     agg_snapshots |->
        [l \in Levels |-> [item \in ITEMS |->
            a.agg_snapshots[l][item] + b.agg_snapshots[l][item]]],
     snapshot_rate_distributions |->
        [l \in Levels |-> [item \in ITEMS |->
            a.snapshot_rate_distributions[l][item] \o b.snapshot_rate_distributions[l][item]]],
     agg_success_by_item |->
        [item \in ITEMS |->
            [success |-> a.agg_success_by_item[item].success + b.agg_success_by_item[item].success,
             failure |-> a.agg_success_by_item[item].failure + b.agg_success_by_item[item].failure]],
     agg_success_by_pull_count |->
        [item \in ITEMS |-> [i \in 1..max_pull_limit |->
            a.agg_success_by_pull_count[item][i] + b.agg_success_by_pull_count[item][i]]],
     agg_depletion_pulls |->
        [item \in ITEMS |-> a.agg_depletion_pulls[item] + b.agg_depletion_pulls[item]],
     agg_depletion_counts |->
        [item \in ITEMS |-> a.agg_depletion_counts[item] + b.agg_depletion_counts[item]],
     agg_pulls_successful |-> a.agg_pulls_successful + b.agg_pulls_successful,
     agg_pulls_failed |-> a.agg_pulls_failed + b.agg_pulls_failed,
     total_successful_customers |-> a.total_successful_customers + b.total_successful_customers,
     total_failed_customers |-> a.total_failed_customers + b.total_failed_customers,
     agg_lifecycle_rates |->
        [item \in ITEMS |-> [d \in 1..TOTAL_CAPSULES |->
            a.agg_lifecycle_rates[item][d] + b.agg_lifecycle_rates[item][d]]],
     total_lifecycle_steps |-> a.total_lifecycle_steps + b.total_lifecycle_steps]

\* The sum of the single-lifetime aggregators of the results rs.
RECURSIVE SumSingles(_)
SumSingles(rs) ==
    IF rs = <<>> THEN EmptyAggregator
    ELSE SumAggregators(SumSingles(SubSeq(rs, 1, Len(rs) - 1)),
                        add_result_to(EmptyAggregator, rs[Len(rs)]))

\* The summed fields of an aggregator (all but the rate lists).
SummedFields(a) ==
    [a EXCEPT !.snapshot_rate_distributions = EmptyAggregator.snapshot_rate_distributions]

\* The results rs in every order.
Reorderings(rs) ==
    LET n == Len(rs)
        perms == {q \in [1..n -> 1..n] : \A i, j \in 1..n : q[i] = q[j] => i = j}
    IN {[k \in 1..n |-> rs[q[k]]] : q \in perms}

\* C12: after add_result, the aggregator's fields are the field-wise sum of the single-lifetime
\* aggregators of the results added so far, its rate lists their concatenation
\* in the order of the calls, and adding the results in any other order gives
\* the same summed fields.
C12_AggregatorIsSumOfSingleLifetimes ==
    pc = "aggregated" =>
        /\ num_runs = Len(results)
        /\ Aggregator = SumSingles(results)
        /\ \A rs \in Reorderings(results) :
              SummedFields(FoldResults(rs)) = SummedFields(Aggregator)

\* Two different results have been added.
C12_Witness ==
    /\ pc = "aggregated"
    /\ Len(results) = 2
    /\ results[1] # results[2]
    /\ num_runs = 2

\* ---------------------------------------------------------------- C13
\* A step of calculate_final_report.
FinalizeStep == pc \in {"main", "aggregated"} /\ pc' \in {"finalized", "ZeroDivisionError"}

\* C13: calculate_final_report on an aggregator with no run returns the empty
\* report, which no aggregator with a run gives (such a report has its
\* "snapshots"), raises nothing, and leaves the aggregator's fields as they
\* were.
C13_ZeroRunsFinalizeIsDistinguishable ==
    [][FinalizeStep =>
          /\ aggVars' = aggVars
          /\ num_runs = 0 =>
                /\ pc' = "finalized"
                /\ DOMAIN final_report' = {}
          /\ num_runs > 0 =>
                /\ pc' = "finalized"
                /\ "snapshots" \in DOMAIN final_report'
                /\ final_report' = FinalReport(Aggregator)]_vars

\* The empty report of an aggregator without runs has been returned.
C13_Witness ==
    /\ pc = "finalized"
    /\ num_runs = 0
    /\ num_simulations = 0
    /\ DOMAIN final_report = {}

\* ---------------------------------------------------------------- C14
\* C14: with fewer than 2 runs aggregated, calculate_final_report followed by
\* print_advanced_report raises nothing, and when the report has been printed
\* the significance analysis has said "Not enough data".
C14_InsufficientDataIsReported ==
    num_runs < 2 =>
        /\ pc \notin {"KeyError", "ZeroDivisionError"}
        /\ pc = "done" => significance = "Not enough data"

\* ---------------------------------------------------------------- C15
\* The counts that add_result adds to agg_snapshots for the k-th result: that
\* lifetime's snapshot per level.
SnapshotOfRun(k) == add_result_to(EmptyAggregator, results[k]).agg_snapshots

\* C15: after N add_result calls every rate list has N entries; the k-th is
\* the item's count in the k-th lifetime's snapshot of the level over the
\* snapshot's total, or 0 when the total is 0, and the entries of the items
\* of one lifetime at one level add up to 1 when the total is positive.
C15_OneRateSamplePerLifetime ==
    pc = "aggregated" =>
        \A l \in Levels :
            /\ \A item \in ITEMS :
                  Len(snapshot_rate_distributions[l][item]) = num_runs
            /\ \A k \in 1..num_runs :
                  LET snapshot == SnapshotOfRun(k)[l]
                      total == Total(snapshot)
                      sample == [item \in ITEMS |-> snapshot_rate_distributions[l][item][k]]
                  IN /\ \A item \in ITEMS :
                          IF total > 0
                          THEN sample[item] = [num |-> snapshot[item], den |-> total]
                          ELSE sample[item] = [num |-> 0, den |-> 1]
                     /\ total > 0 =>
                          SumOver([item \in ITEMS |-> sample[item].num], ITEMS) = total

\* Two lifetimes have been added whose "25%" snapshots differ, and the samples
\* of the "0%" snapshot, which is empty, are 0.
C15_Witness ==
    /\ pc = "aggregated"
    /\ num_runs = 2
    /\ SnapshotOfRun(1)["25%"] # SnapshotOfRun(2)["25%"]
    /\ Total(SnapshotOfRun(1)["25%"]) > 0
    /\ \A item \in ITEMS :
          snapshot_rate_distributions["0%"][item] = <<[num |-> 0, den |-> 1], [num |-> 0, den |-> 1]>>

\* ---------------------------------------------------------------- C19
\* The number of outcomes of the results rs.
RECURSIVE CountOutcomes(_)
CountOutcomes(rs) ==
    IF rs = <<>> THEN 0
    ELSE Len(rs[1].customer_outcomes) + CountOutcomes(Tail(rs))

\* C19: with max_pull_limit the largest key of the patience distributions,
\* after add_result the per-pull-position success counts of every item add up
\* to the item's successes, and the successful and failed customers add up to
\* the number of outcomes of the results added.
C19_NoSuccessDroppedFromHistogram ==
    pc = "aggregated" =>
        /\ \A item \in ITEMS :
              SumOver(agg_success_by_pull_count[item], 1..max_pull_limit)
                 = agg_success_by_item[item].success
        /\ total_successful_customers + total_failed_customers = CountOutcomes(results)
        /\ total_successful_customers =
              SumOver([item \in ITEMS |-> agg_success_by_item[item].success], ITEMS)

\* Successes on a first pull and on a later pull, and a failure, have been
\* added.
C19_Witness ==
    /\ pc = "aggregated"
    /\ \E item \in ITEMS : agg_success_by_pull_count[item][1] > 0
    /\ \E item \in ITEMS : \E i \in 2..max_pull_limit : agg_success_by_pull_count[item][i] > 0
    /\ total_failed_customers > 0

\* ---------------------------------------------------------------- C20
\* C20: after add_result every item has one depletion point per run, so the
\* report of an aggregator with runs has no infinite mean of pulls to
\* depletion, and every mean is at least CAPSULES_PER_ITEM and at most
\* TOTAL_CAPSULES.
C20_EveryItemDepletesInEveryRun ==
    /\ pc = "aggregated" =>
          \A item \in ITEMS :
              /\ num_runs >= 1
              /\ agg_depletion_counts[item] = num_runs
              /\ agg_depletion_pulls[item] >= CAPSULES_PER_ITEM * num_runs
              /\ agg_depletion_pulls[item] <= TOTAL_CAPSULES * num_runs
    /\ (pc \in {"finalized", "done"} /\ num_runs >= 1) =>
          \A item \in ITEMS :
              LET mean == final_report.avg_pulls_to_depletion[item]
              IN /\ mean # Inf
                 /\ mean.den = num_runs
                 /\ mean.num >= CAPSULES_PER_ITEM * mean.den
                 /\ mean.num <= TOTAL_CAPSULES * mean.den

\* The report of two runs has been computed; one item's mean is the least
\* possible and the other's the greatest.
C20_Witness ==
    /\ pc = "finalized"
    /\ num_runs = 2
    /\ \E item \in ITEMS :
          final_report.avg_pulls_to_depletion[item] = Frac(CAPSULES_PER_ITEM * 2, 2)
    /\ \E item \in ITEMS :
          final_report.avg_pulls_to_depletion[item] = Frac(TOTAL_CAPSULES * 2, 2)

====
